---- MODULE Spec2Model ----
(***************************************************************************)
(* Model of the rotating-cube renderer of mets/embedded/                   *)
(* fast_rotating_cube.py: integer rotation by table lookup, orthographic   *)
(* projection, incremental line rasterisation with per-frame pixel         *)
(* tracking, differential clearing, and the run_animation loop; and of the *)
(* polling loop of the score display, mets/embedded/code.py.               *)
(*                                                                         *)
(* Python's // is floor division and % with a positive modulus is          *)
(* non-negative; TLA+'s \div and % on Integers have the same meaning.      *)
(* Times are in milliseconds (the source uses float seconds).              *)
(***************************************************************************)
EXTENDS Integers, Sequences, FiniteSets, TLC

VARIABLES
  MATRIX_WIDTH,          \* module constant read from the environment
  MATRIX_HEIGHT,         \* module constant read from the environment
  bitmap,                \* self.bitmap: the non-background cells <<x, y>> and
                         \* their colour index; every other cell holds 0
  previous_pixels,       \* self.previous_pixels
  current_pixels,        \* the frame set handed to fast_draw_line
  transformed_vertices,  \* self.transformed_vertices
  self_vertices,         \* self.vertices: a list of 8 mutable lists
  self_edges,            \* self.edges
  localtime_refresh,     \* code.py: monotonic time of the latest time sync
  game_refresh,          \* code.py: monotonic time of the latest game data
  monotonic,             \* code.py: time.monotonic(), in seconds
  last_request,          \* code.py: the latest network request and its outcome
  slept,                 \* code.py: time.sleep(1) has run since that request
  angle_x, angle_y, angle_z,
  scale, center_x, center_y,
  pc,                    \* position of the running method
  duration, start_time, frame_count, last_fps_time, frame_start, sleep_for,
  now,                   \* the clock read by time.time() / time.monotonic()
  vi, ei,                \* loop indices of fast_draw_cube
  ln,                    \* locals of the running fast_draw_line
  written,               \* bitmap indices stored to by the latest step
  path,                  \* points visited so far by the running fast_draw_line
  cleared,               \* pixels_to_clear of the latest Frame Differ step
  call,                  \* the latest method call and its arguments
  ret,                   \* the value returned by the latest call
  runs,                  \* number of run_animation calls so far
  stopped_at             \* how the latest run left its loop

vars == << MATRIX_WIDTH, MATRIX_HEIGHT, bitmap, previous_pixels, current_pixels,
           transformed_vertices, angle_x, angle_y, angle_z, scale, center_x,
           center_y, pc, duration, start_time, frame_count, last_fps_time,
           frame_start, sleep_for, now, vi, ei, ln, written, path, cleared,
           call, ret, runs, stopped_at, self_vertices, self_edges,
           localtime_refresh, game_refresh, monotonic, last_request, slept >>

-----------------------------------------------------------------------------
(* Bounds of the model *)

MaxFrames == 2

MaxRuns == 2

SmallWidth == 7

SmallHeight == 5

OobMargin == 2

-----------------------------------------------------------------------------
(* Program constants *)

DefaultWidth == 64

DefaultHeight == 64

rotation_speed == 3

FrameBudget == 16

FpsInterval == 2000

NoDuration == -1

NoLine == [x1 |-> 0, y1 |-> 0, x2 |-> 0, y2 |-> 0, dx |-> 0, dy |-> 0,
           x_step |-> 0, y_step |-> 0, error |-> 0, x |-> 0, y |-> 0,
           color |-> 0]

NoCall == [op |-> "none"]

\* code.py: localtime_refresh = None, game_refresh = None
None == -1

\* code.py: the literal 3600 of the time refresh test
TimeSyncInterval == 3600

UPDATE_INTERVAL == 300

\* code.py: time.sleep(1)
SleepSeconds == 1

NoRequest == [op |-> "none", outcome |-> "none"]

SINE_TABLE ==
  << 0, 17, 34, 52, 69, 87, 104, 121, 139, 156, 173, 190, 207, 224, 241,
     258, 275, 292, 309, 325, 342, 358, 374, 390, 406, 422, 438, 453, 469, 484,
     499, 515, 529, 544, 559, 573, 587, 601, 615, 629, 642, 656, 669, 681, 694,
     707, 719, 731, 743, 754, 766, 777, 788, 798, 809, 819, 829, 838, 848, 857,
     866, 874, 882, 891, 898, 906, 913, 920, 927, 933, 939, 945, 951, 956, 961,
     965, 970, 974, 978, 981, 984, 987, 990, 992, 994, 996, 997, 998, 999, 999,
     1000, 999, 999, 998, 997, 996, 994, 992, 990, 987, 984, 981, 978, 974, 970,
     965, 961, 956, 951, 945, 939, 933, 927, 920, 913, 906, 898, 891, 882, 874,
     866, 857, 848, 838, 829, 819, 809, 798, 788, 777, 766, 754, 743, 731, 719,
     707, 694, 681, 669, 656, 642, 629, 615, 601, 587, 573, 559, 544, 529, 515,
     499, 484, 469, 453, 438, 422, 406, 390, 374, 358, 342, 325, 309, 292, 275,
     258, 241, 224, 207, 190, 173, 156, 139, 121, 104, 87, 69, 52, 34, 17,
     0, -17, -34, -52, -69, -87, -104, -121, -139, -156, -173, -190, -207, -224, -241,
     -258, -275, -292, -309, -325, -342, -358, -374, -390, -406, -422, -438, -453, -469, -484,
     -500, -515, -529, -544, -559, -573, -587, -601, -615, -629, -642, -656, -669, -681, -694,
     -707, -719, -731, -743, -754, -766, -777, -788, -798, -809, -819, -829, -838, -848, -857,
     -866, -874, -882, -891, -898, -906, -913, -920, -927, -933, -939, -945, -951, -956, -961,
     -965, -970, -974, -978, -981, -984, -987, -990, -992, -994, -996, -997, -998, -999, -999,
     -1000, -999, -999, -998, -997, -996, -994, -992, -990, -987, -984, -981, -978, -974, -970,
     -965, -961, -956, -951, -945, -939, -933, -927, -920, -913, -906, -898, -891, -882, -874,
     -866, -857, -848, -838, -829, -819, -809, -798, -788, -777, -766, -754, -743, -731, -719,
     -707, -694, -681, -669, -656, -642, -629, -615, -601, -587, -573, -559, -544, -529, -515,
     -500, -484, -469, -453, -438, -422, -406, -390, -374, -358, -342, -325, -309, -292, -275,
     -258, -241, -224, -207, -190, -173, -156, -139, -121, -104, -87, -69, -52, -34, -17 >>

COSINE_TABLE ==
  << 1000, 999, 999, 998, 997, 996, 994, 992, 990, 987, 984, 981, 978, 974, 970,
     965, 961, 956, 951, 945, 939, 933, 927, 920, 913, 906, 898, 891, 882, 874,
     866, 857, 848, 838, 829, 819, 809, 798, 788, 777, 766, 754, 743, 731, 719,
     707, 694, 681, 669, 656, 642, 629, 615, 601, 587, 573, 559, 544, 529, 515,
     500, 484, 469, 453, 438, 422, 406, 390, 374, 358, 342, 325, 309, 292, 275,
     258, 241, 224, 207, 190, 173, 156, 139, 121, 104, 87, 69, 52, 34, 17,
     0, -17, -34, -52, -69, -87, -104, -121, -139, -156, -173, -190, -207, -224, -241,
     -258, -275, -292, -309, -325, -342, -358, -374, -390, -406, -422, -438, -453, -469, -484,
     -499, -515, -529, -544, -559, -573, -587, -601, -615, -629, -642, -656, -669, -681, -694,
     -707, -719, -731, -743, -754, -766, -777, -788, -798, -809, -819, -829, -838, -848, -857,
     -866, -874, -882, -891, -898, -906, -913, -920, -927, -933, -939, -945, -951, -956, -961,
     -965, -970, -974, -978, -981, -984, -987, -990, -992, -994, -996, -997, -998, -999, -999,
     -1000, -999, -999, -998, -997, -996, -994, -992, -990, -987, -984, -981, -978, -974, -970,
     -965, -961, -956, -951, -945, -939, -933, -927, -920, -913, -906, -898, -891, -882, -874,
     -866, -857, -848, -838, -829, -819, -809, -798, -788, -777, -766, -754, -743, -731, -719,
     -707, -694, -681, -669, -656, -642, -629, -615, -601, -587, -573, -559, -544, -529, -515,
     -500, -484, -469, -453, -438, -422, -406, -390, -374, -358, -342, -325, -309, -292, -275,
     -258, -241, -224, -207, -190, -173, -156, -139, -121, -104, -87, -69, -52, -34, -17,
     0, 17, 34, 52, 69, 87, 104, 121, 139, 156, 173, 190, 207, 224, 241,
     258, 275, 292, 309, 325, 342, 358, 374, 390, 406, 422, 438, 453, 469, 484,
     500, 515, 529, 544, 559, 573, 587, 601, 615, 629, 642, 656, 669, 681, 694,
     707, 719, 731, 743, 754, 766, 777, 788, 798, 809, 819, 829, 838, 848, 857,
     866, 874, 882, 891, 898, 906, 913, 920, 927, 933, 939, 945, 951, 956, 961,
     965, 970, 974, 978, 981, 984, 987, 990, 992, 994, 996, 997, 998, 999, 999 >>
-----------------------------------------------------------------------------
(* Fixed geometry *)

vertices ==
  << <<-1000, -1000, -1000>>, <<1000, -1000, -1000>>,
     <<1000, 1000, -1000>>,   <<-1000, 1000, -1000>>,
     <<-1000, -1000, 1000>>,  <<1000, -1000, 1000>>,
     <<1000, 1000, 1000>>,    <<-1000, 1000, 1000>> >>

\* pairs of 0-based vertex indices, as in the source
edges ==
  << <<0, 1>>, <<1, 2>>, <<2, 3>>, <<3, 0>>,
     <<4, 5>>, <<5, 6>>, <<6, 7>>, <<7, 4>>,
     <<0, 4>>, <<1, 5>>, <<2, 6>>, <<3, 7>> >>

Abs(n) == IF n < 0 THEN -n ELSE n

Min(a, b) == IF a < b THEN a ELSE b

Cells(w, h) == (0 .. w - 1) \X (0 .. h - 1)

\* the table read clamped to its last entry instead of wrapped
SinClamped(a) == SINE_TABLE[Min(a, 359) + 1]

Sin(a) == SINE_TABLE[(a % 360) + 1]

Cos(a) == COSINE_TABLE[(a % 360) + 1]

\* the product rounded to the nearest integer instead of truncated
IntTenthsRounded(s, tenths) == (s * tenths + 5) \div 10

\* int(rotation_speed * 0.7) and int(rotation_speed * 0.5), speed >= 0
IntTenths(s, tenths) == (s * tenths) \div 10

-----------------------------------------------------------------------------
(* Framebuffer writes *)

ClearInBounds(x, y) ==
  0 <= x /\ x < MATRIX_WIDTH /\ 0 <= y /\ y < MATRIX_HEIGHT

\* off by one on the upper row bound
SetInBoundsInclusive(x, y) ==
  0 <= x /\ x < MATRIX_WIDTH /\ 0 <= y /\ y <= MATRIX_HEIGHT

SetInBounds(x, y) ==
  0 <= x /\ x < MATRIX_WIDTH /\ 0 <= y /\ y < MATRIX_HEIGHT

\* off by one on the left column bound
LineInBoundsSkipsFirstColumn(x, y) ==
  0 < x /\ x < MATRIX_WIDTH /\ 0 <= y /\ y < MATRIX_HEIGHT

\* off by one on the right column bound
LineInBoundsInclusive(x, y) ==
  0 <= x /\ x <= MATRIX_WIDTH /\ 0 <= y /\ y < MATRIX_HEIGHT

LineInBounds(x, y) ==
  0 <= x /\ x < MATRIX_WIDTH /\ 0 <= y /\ y < MATRIX_HEIGHT

\* displayio.Bitmap(width, height, 8): every cell starts at 0
EmptyBitmap == [q \in {} |-> 0]

\* the value read at self.bitmap[x, y]
Pixel(bm, x, y) == IF <<x, y>> \in DOMAIN bm THEN bm[<<x, y>>] ELSE 0

\* self.bitmap[x, y] = c
Store(bm, x, y, c) ==
  IF c = 0
    THEN [q \in DOMAIN bm \ {<<x, y>>} |-> bm[q]]
    ELSE [q \in DOMAIN bm \cup {<<x, y>>} |-> IF q = <<x, y>> THEN c ELSE bm[q]]

\* the whole previous frame is cleared
PixelsToClearAllPrevious(prev, cur) == prev

\* line 233: self.previous_pixels - current_pixels
PixelsToClear(prev, cur) == prev \ cur

\* the previous-frame set is never replaced
RetainedPixelsStale(prev, cur) == prev

\* line 237: the set kept as previous_pixels for the next frame
RetainedPixels(prev, cur) == cur

\* the cells fast_clear stores to
ClearTargets(pixels) == {p \in pixels : ClearInBounds(p[1], p[2])}

\* the clearing loop stores nothing
fast_clear_nothing(bm, pixels) == bm

fast_clear(bm, pixels) ==
  [q \in DOMAIN bm \ ClearTargets(pixels) |-> bm[q]]

set_pixel(bm, x, y, c) == IF SetInBounds(x, y) THEN Store(bm, x, y, c) ELSE bm

\* only the previous frame's pixels are cleared
ClearPreviousOnly(bm) == [q \in DOMAIN bm \ previous_pixels |-> bm[q]]

\* the nested loops "for y ... for x ...: self.bitmap[x, y] = 0"
ClearAll(bm) == [q \in DOMAIN bm \ Cells(MATRIX_WIDTH, MATRIX_HEIGHT) |-> bm[q]]

-----------------------------------------------------------------------------
(* Rotation and projection *)

\* division truncating toward zero
Div1000Trunc(n) == IF n >= 0 THEN n \div 1000 ELSE -((-n) \div 1000)

\* "// 1000": Python floor division
Div1000(n) == n \div 1000

RotateX(p, a) ==
  << p[1],
     Div1000(p[2] * Cos(a) - p[3] * Sin(a)),
     Div1000(p[2] * Sin(a) + p[3] * Cos(a)) >>

RotateY(p, a) ==
  << Div1000(p[1] * Cos(a) + p[3] * Sin(a)),
     p[2],
     Div1000((-p[1]) * Sin(a) + p[3] * Cos(a)) >>

RotateZ(p, a) ==
  << Div1000(p[1] * Cos(a) - p[2] * Sin(a)),
     Div1000(p[1] * Sin(a) + p[2] * Cos(a)),
     p[3] >>

\* the argument list written in place with the rotated coordinates
PointAfterRotateInPlace(p, ax, ay, az) ==
  RotateZ(RotateY(RotateX(p, ax), ay), az)

\* the list passed as point, after the call: line 137 unpacks it into
\* x, y, z and lines 141-162 assign those locals only
PointAfterRotate(p, ax, ay, az) == p

\* the axes applied in the order Z, Y, X
fast_rotate_point_zyx(p, ax, ay, az) == RotateX(RotateY(RotateZ(p, az), ay), ax)

fast_rotate_point(p, ax, ay, az) == RotateZ(RotateY(RotateX(p, ax), ay), az)

\* center_x used for both coordinates
fast_project_to_2d_cx(p, sc, cx, cy) ==
  << Div1000(Div1000(p[1] * sc) + cx), Div1000(Div1000(p[2] * sc) + cx) >>

fast_project_to_2d(p, sc, cx, cy) ==
  << Div1000(Div1000(p[1] * sc) + cx),
     Div1000(Div1000(p[2] * sc) + cy) >>

-----------------------------------------------------------------------------
(* Line rasteriser: set-up and one iteration of the while loop *)

\* y_step computed from the x coordinates
LineInitCopiedStep(x1, y1, x2, y2, color) ==
  [x1 |-> x1, y1 |-> y1, x2 |-> x2, y2 |-> y2,
   dx |-> Abs(x2 - x1), dy |-> Abs(y2 - y1),
   x_step |-> IF x1 < x2 THEN 1 ELSE -1,
   y_step |-> IF x1 < x2 THEN 1 ELSE -1,
   error |-> Abs(x2 - x1) - Abs(y2 - y1),
   x |-> x1, y |-> y1, color |-> color]

LineInit(x1, y1, x2, y2, color) ==
  [x1 |-> x1, y1 |-> y1, x2 |-> x2, y2 |-> y2,
   dx |-> Abs(x2 - x1), dy |-> Abs(y2 - y1),
   x_step |-> IF x1 < x2 THEN 1 ELSE -1,
   y_step |-> IF y1 < y2 THEN 1 ELSE -1,
   error |-> Abs(x2 - x1) - Abs(y2 - y1),
   x |-> x1, y |-> y1, color |-> color]

LineAtEnd(l) == l.x = l.x2 /\ l.y = l.y2

\* lines 193-201: error2 is computed once, both tests use it
LineAdvance(l) ==
  LET error2 == 2 * l.error
      stepX  == error2 > -l.dy
      stepY  == error2 < l.dx
  IN  [l EXCEPT !.error = l.error - (IF stepX THEN l.dy ELSE 0)
                                  + (IF stepY THEN l.dx ELSE 0),
                !.x = IF stepX THEN l.x + l.x_step ELSE l.x,
                !.y = IF stepY THEN l.y + l.y_step ELSE l.y]

\* the colours counted from 0: the back face gets the background index
EdgeColorFromZero(e) ==
  IF e \in {<<0, 1>>, <<1, 2>>, <<2, 3>>, <<3, 0>>} THEN 0
  ELSE IF e \in {<<4, 5>>, <<5, 6>>, <<6, 7>>, <<7, 4>>} THEN 1
  ELSE 2

EdgeColor(e) ==
  IF e \in {<<0, 1>>, <<1, 2>>, <<2, 3>>, <<3, 0>>} THEN 1
  ELSE IF e \in {<<4, 5>>, <<5, 6>>, <<6, 7>>, <<7, 4>>} THEN 2
  ELSE 3

-----------------------------------------------------------------------------
(* Construction *)

dims == << MATRIX_WIDTH, MATRIX_HEIGHT, scale, center_x, center_y >>

\* the state of the score display's polling loop
polling == << localtime_refresh, game_refresh, monotonic, last_request, slept >>

geom == << dims, self_vertices, self_edges >>

angles == << angle_x, angle_y, angle_z >>

timing == << duration, start_time, frame_count, last_fps_time, frame_start,
             sleep_for, now >>

ghosts == << call, ret >>

\* FastRotatingCube.__init__ with the matrix size w x h
Construct(w, h) ==
  /\ MATRIX_WIDTH = w
  /\ MATRIX_HEIGHT = h
  /\ bitmap = EmptyBitmap
  /\ previous_pixels = {}
  /\ current_pixels = {}
  /\ self_vertices = vertices
  /\ self_edges = edges
  /\ transformed_vertices = [i \in 1 .. 8 |-> <<0, 0>>]
  /\ angle_x = 0
  /\ angle_y = 0
  /\ angle_z = 0
  /\ scale = Min(w, h) * 300
  /\ center_x = (w * 1000) \div 2
  /\ center_y = (h * 1000) \div 2
  /\ pc = "idle"
  /\ duration = NoDuration
  /\ start_time = 0
  /\ frame_count = 0
  /\ last_fps_time = 0
  /\ frame_start = 0
  /\ sleep_for = 0
  /\ now = 0
  /\ vi = 0
  /\ ei = 0
  /\ ln = NoLine
  /\ written = {}
  /\ path = << >>
  /\ cleared = {}
  /\ call = NoCall
  /\ ret = << >>
  /\ runs = 0
  /\ stopped_at = "none"
  /\ localtime_refresh = None
  /\ game_refresh = None
  /\ monotonic = 0
  /\ last_request = NoRequest
  /\ slept = FALSE

-----------------------------------------------------------------------------
(* run_animation, step by step *)

\* duration arguments tried: None, 0, and a limit of one frame budget
Durations == {NoDuration, 0, FrameBudget}

\* processing time of one frame: under the budget, and exactly the budget
WorkTimes == {5, FrameBudget}

\* positions inside the try block, where KeyboardInterrupt is caught
TryPcs == {"loop", "draw", "transform", "edges", "line", "differ", "retain",
           "rotate", "count", "pace", "sleep"}

\* lines 245-261: the call, the initial clear, the start times
Start ==
  /\ pc \in {"idle", "returned"}
  /\ runs < MaxRuns
  /\ \E d \in Durations : duration' = d
  /\ runs' = runs + 1
  /\ bitmap' = ClearAll(bitmap)
  /\ written' = Cells(MATRIX_WIDTH, MATRIX_HEIGHT)
  /\ start_time' = now
  /\ frame_count' = 0
  /\ last_fps_time' = now
  /\ stopped_at' = "none"
  /\ pc' = "loop"
  /\ UNCHANGED << polling, geom, angles, ghosts, previous_pixels, current_pixels,
                  transformed_vertices, frame_start, sleep_for, now, vi, ei,
                  ln, path, cleared >>

\* "if duration and ..." : None and 0 are both false
DurationReached ==
  duration # NoDuration /\ duration # 0 /\ now - start_time >= duration

\* lines 295-300: the finally block clears the display, then the method
\* returns and its locals (and those of the methods it was running) are gone
Finalize(reason) ==
  /\ bitmap' = ClearAll(bitmap)
  /\ written' = Cells(MATRIX_WIDTH, MATRIX_HEIGHT)
  /\ pc' = "returned"
  /\ stopped_at' = reason
  /\ duration' = NoDuration
  /\ start_time' = 0
  /\ frame_count' = 0
  /\ last_fps_time' = 0
  /\ frame_start' = 0
  /\ sleep_for' = 0
  /\ current_pixels' = {}
  /\ vi' = 0
  /\ ei' = 0
  /\ ln' = NoLine
  /\ path' = << >>
  /\ UNCHANGED << polling, geom, angles, ghosts, now, previous_pixels,
                  transformed_vertices, cleared, runs >>

\* lines 264-269, the limit is reached: break, then the finally block
DurationStop ==
  /\ pc = "loop"
  /\ DurationReached
  /\ Finalize("duration")

\* the angles advanced at the top of the cycle, before the frame is drawn
LoopTopAdvances ==
  /\ pc = "loop"
  /\ ~DurationReached
  /\ now < MaxFrames * FrameBudget
  /\ frame_start' = now
  /\ angle_x' = (angle_x + rotation_speed) % 360
  /\ angle_y' = (angle_y + IntTenths(rotation_speed, 7)) % 360
  /\ angle_z' = (angle_z + IntTenths(rotation_speed, 5)) % 360
  /\ pc' = "draw"
  /\ written' = {}
  /\ UNCHANGED << polling, geom, ghosts, bitmap, previous_pixels,
                  current_pixels, transformed_vertices, duration, start_time,
                  frame_count, last_fps_time, sleep_for, now, vi, ei, ln,
                  path, cleared, runs, stopped_at >>

\* lines 264-269, the loop goes on
LoopTop ==
  /\ pc = "loop"
  /\ ~DurationReached
  /\ now < MaxFrames * FrameBudget
  /\ frame_start' = now
  /\ pc' = "draw"
  /\ written' = {}
  /\ UNCHANGED << polling, geom, angles, ghosts, bitmap, previous_pixels,
                  current_pixels, transformed_vertices, duration, start_time,
                  frame_count, last_fps_time, sleep_for, now, vi, ei, ln,
                  path, cleared, runs, stopped_at >>

\* lines 203-206: fast_draw_cube is entered, the frame set is created
DrawCubeBegin ==
  /\ pc = "draw"
  /\ current_pixels' = {}
  /\ vi' = 0
  /\ pc' = "transform"
  /\ written' = {}
  /\ UNCHANGED << polling, geom, angles, ghosts, timing, bitmap, previous_pixels,
                  transformed_vertices, ei, ln, path, cleared, runs,
                  stopped_at >>

\* lines 209-211: the for loop over the 8 vertices
TransformAll ==
  [i \in 1 .. Len(self_vertices) |->
     fast_project_to_2d(
       fast_rotate_point(self_vertices[i], angle_x, angle_y, angle_z),
       scale, center_x, center_y)]

Transform ==
  /\ pc = "transform"
  /\ transformed_vertices' = TransformAll
  /\ self_vertices' =
       [i \in 1 .. Len(self_vertices) |->
          PointAfterRotate(self_vertices[i], angle_x, angle_y, angle_z)]
  /\ vi' = Len(self_vertices)
  /\ ei' = 1
  /\ pc' = "edges"
  /\ written' = {}
  /\ UNCHANGED << polling, dims, self_edges, angles, ghosts, timing, bitmap,
                  previous_pixels, current_pixels, ln, path, cleared, runs,
                  stopped_at >>

\* lines 214-230 and 176-183: the next edge is picked and its line set up
EdgeBegin ==
  /\ pc = "edges"
  /\ LET e == self_edges[ei]
         s == transformed_vertices[e[1] + 1]
         t == transformed_vertices[e[2] + 1]
     IN  ln' = LineInit(s[1], s[2], t[1], t[2], EdgeColor(e))
  /\ path' = << >>
  /\ pc' = "line"
  /\ written' = {}
  /\ UNCHANGED << polling, geom, angles, ghosts, timing, bitmap, previous_pixels,
                  current_pixels, transformed_vertices, vi, ei, cleared, runs,
                  stopped_at >>

\* lines 185-201: one iteration of the while loop of fast_draw_line
LineBody ==
  /\ bitmap' = IF LineInBounds(ln.x, ln.y)
                 THEN Store(bitmap, ln.x, ln.y, ln.color) ELSE bitmap
  /\ current_pixels' = IF LineInBounds(ln.x, ln.y)
                         THEN current_pixels \cup {<<ln.x, ln.y>>}
                         ELSE current_pixels
  /\ written' = IF LineInBounds(ln.x, ln.y) THEN {<<ln.x, ln.y>>} ELSE {}
  /\ path' = Append(path, <<ln.x, ln.y>>)
  /\ ln' = IF LineAtEnd(ln) THEN ln ELSE LineAdvance(ln)

\* the loop of fast_draw_line as run for an edge of the cube
LineStep ==
  /\ pc = "line"
  /\ LineBody
  /\ IF LineAtEnd(ln)
       THEN IF ei < Len(self_edges)
              THEN ei' = ei + 1 /\ pc' = "edges"
              ELSE ei' = ei /\ pc' = "differ"
       ELSE ei' = ei /\ pc' = pc
  /\ UNCHANGED << polling, geom, angles, ghosts, timing, previous_pixels,
                  transformed_vertices, vi, cleared, runs, stopped_at >>

\* lines 232-234: the Frame Differ
Differ ==
  /\ pc = "differ"
  /\ cleared' = PixelsToClear(previous_pixels, current_pixels)
  /\ bitmap' = fast_clear(bitmap, PixelsToClear(previous_pixels, current_pixels))
  /\ written' = ClearTargets(PixelsToClear(previous_pixels, current_pixels))
  /\ pc' = "retain"
  /\ UNCHANGED << polling, geom, angles, ghosts, timing, previous_pixels,
                  current_pixels, transformed_vertices, vi, ei, ln, path,
                  runs, stopped_at >>

\* line 237
Retain ==
  /\ pc = "retain"
  /\ previous_pixels' = RetainedPixels(previous_pixels, current_pixels)
  /\ pc' = "rotate"
  /\ written' = {}
  /\ UNCHANGED << polling, geom, angles, ghosts, timing, bitmap, current_pixels,
                  transformed_vertices, vi, ei, ln, path, cleared, runs,
                  stopped_at >>

\* the wrap is missing
NextAngleXNoWrap(a) == a + rotation_speed

NextAngleX(a) == (a + rotation_speed) % 360

NextAngleY(a) == (a + IntTenths(rotation_speed, 7)) % 360

NextAngleZ(a) == (a + IntTenths(rotation_speed, 5)) % 360

\* lines 239-243
update_rotation ==
  /\ angle_x' = NextAngleX(angle_x)
  /\ angle_y' = NextAngleY(angle_y)
  /\ angle_z' = NextAngleZ(angle_z)

UpdateRotation ==
  /\ pc = "rotate"
  /\ update_rotation
  /\ pc' = "count"
  /\ written' = {}
  /\ UNCHANGED << polling, geom, ghosts, timing, bitmap, previous_pixels,
                  current_pixels, transformed_vertices, vi, ei, ln, path,
                  cleared, runs, stopped_at >>

\* lines 277-285; the frame's processing time w has passed on the clock
CountFrame ==
  /\ pc = "count"
  /\ \E w \in WorkTimes : now' = now + w
  /\ frame_count' = frame_count + 1
  /\ last_fps_time' = IF now' - last_fps_time >= FpsInterval
                        THEN now' ELSE last_fps_time
  /\ pc' = "pace"
  /\ written' = {}
  /\ UNCHANGED << polling, geom, angles, ghosts, bitmap, previous_pixels,
                  current_pixels, transformed_vertices, duration, start_time,
                  frame_start, sleep_for, vi, ei, ln, path, cleared, runs,
                  stopped_at >>

\* the budget compared with <=: a sleep of zero length is requested
PaceInclusive ==
  /\ pc = "pace"
  /\ IF now - frame_start <= FrameBudget
       THEN sleep_for' = FrameBudget - (now - frame_start) /\ pc' = "sleep"
       ELSE sleep_for' = 0 /\ pc' = "loop"
  /\ written' = {}
  /\ UNCHANGED << polling, geom, angles, ghosts, bitmap, previous_pixels,
                  current_pixels, transformed_vertices, duration, start_time,
                  frame_count, last_fps_time, frame_start, now, vi, ei, ln,
                  path, cleared, runs, stopped_at >>

\* lines 288-290: the pacing decision
Pace ==
  /\ pc = "pace"
  /\ IF now - frame_start < FrameBudget
       THEN sleep_for' = FrameBudget - (now - frame_start) /\ pc' = "sleep"
       ELSE sleep_for' = 0 /\ pc' = "loop"
  /\ written' = {}
  /\ UNCHANGED << polling, geom, angles, ghosts, bitmap, previous_pixels,
                  current_pixels, transformed_vertices, duration, start_time,
                  frame_count, last_fps_time, frame_start, now, vi, ei, ln,
                  path, cleared, runs, stopped_at >>

\* line 290: time.sleep returns after the requested time
Sleep ==
  /\ pc = "sleep"
  /\ now' = now + sleep_for
  /\ sleep_for' = 0
  /\ pc' = "loop"
  /\ written' = {}
  /\ UNCHANGED << polling, geom, angles, ghosts, bitmap, previous_pixels,
                  current_pixels, transformed_vertices, duration, start_time,
                  frame_count, last_fps_time, frame_start, vi, ei, ln, path,
                  cleared, runs, stopped_at >>

\* lines 292-300: KeyboardInterrupt raised anywhere inside the try block is
\* caught, then the finally block runs
Interrupt ==
  /\ pc \in TryPcs
  /\ Finalize(pc)

Init == Construct(DefaultWidth, DefaultHeight)

Next ==
  \/ Start
  \/ LoopTop
  \/ DurationStop
  \/ DrawCubeBegin
  \/ Transform
  \/ EdgeBegin
  \/ LineStep
  \/ Differ
  \/ Retain
  \/ UpdateRotation
  \/ CountFrame
  \/ Pace
  \/ Sleep
  \/ Interrupt

Spec == Init /\ [][Next]_vars

-----------------------------------------------------------------------------
(* The drawing methods called directly on a small matrix: one               *)
(* fast_draw_line call run step by step, then one set_pixel or fast_clear   *)
(* call, with coordinates up to OobMargin outside the matrix on every side. *)

XCoords == (-OobMargin) .. (MATRIX_WIDTH - 1 + OobMargin)

YCoords == (-OobMargin) .. (MATRIX_HEIGHT - 1 + OobMargin)

LineColors == {2, 3}

\* cells at and around the corners of the matrix
ProbePoints ==
  {<<-1, 0>>, <<0, -1>>, <<0, 0>>, <<1, 0>>,
   <<MATRIX_WIDTH - 1, MATRIX_HEIGHT - 1>>, <<MATRIX_WIDTH, MATRIX_HEIGHT - 1>>,
   <<MATRIX_WIDTH - 1, MATRIX_HEIGHT>>, <<MATRIX_WIDTH, 0>>,
   <<0, MATRIX_HEIGHT>>}

\* pixel collections passed to fast_clear
ProbeSets ==
  {current_pixels, XCoords \X YCoords,
   {<<-1, 0>>, <<MATRIX_WIDTH, 0>>, <<0, MATRIX_HEIGHT>>, <<0, -1>>},
   {<<0, 0>>, <<MATRIX_WIDTH, MATRIX_HEIGHT - 1>>}}

animation == << previous_pixels, transformed_vertices, timing, vi, ei,
                cleared, runs, stopped_at >>

\* fast_draw_line(x1, y1, x2, y2, color_index, current_pixels): lines 176-183
CallDrawLine ==
  /\ pc = "idle"
  /\ \E x1 \in XCoords, y1 \in YCoords, x2 \in XCoords, y2 \in YCoords,
        c \in LineColors :
       /\ ln' = LineInit(x1, y1, x2, y2, c)
       /\ call' = [op |-> "fast_draw_line", x1 |-> x1, y1 |-> y1,
                   x2 |-> x2, y2 |-> y2, color |-> c]
  /\ path' = << >>
  /\ written' = {}
  /\ pc' = "call_line"
  /\ UNCHANGED << polling, geom, angles, animation, bitmap, current_pixels, ret >>

\* lines 185-201: one iteration of the while loop; the break returns
CallLineStep ==
  /\ pc = "call_line"
  /\ LineBody
  /\ pc' = IF LineAtEnd(ln) THEN "line_done" ELSE pc
  /\ UNCHANGED << polling, geom, angles, animation, ghosts >>

\* set_pixel(x, y, color_index): lines 130-133
CallSetPixel ==
  /\ pc = "line_done"
  /\ \E p \in ProbePoints, c \in {0, 1} :
       /\ bitmap' = set_pixel(bitmap, p[1], p[2], c)
       /\ written' = IF SetInBounds(p[1], p[2]) THEN {p} ELSE {}
       /\ call' = [op |-> "set_pixel", x |-> p[1], y |-> p[2], color |-> c]
  /\ pc' = "op_done"
  /\ UNCHANGED << polling, geom, angles, animation, current_pixels, ln, path, ret >>

\* fast_clear(pixels_to_clear): lines 124-128
CallFastClear ==
  /\ pc = "line_done"
  /\ \E s \in ProbeSets :
       /\ bitmap' = fast_clear(bitmap, s)
       /\ written' = ClearTargets(s)
       /\ call' = [op |-> "fast_clear", pixels |-> s]
  /\ pc' = "op_done"
  /\ UNCHANGED << polling, geom, angles, animation, current_pixels, ln, path, ret >>

InitLine == Construct(SmallWidth, SmallHeight)

NextLine == CallDrawLine \/ CallLineStep \/ CallSetPixel \/ CallFastClear

SpecLine == InitLine /\ [][NextLine]_vars

\* fast_draw_line alone; the interpreter keeps running the while loop, so
\* an enabled iteration is eventually taken
NextLineOnly == CallDrawLine \/ CallLineStep

SpecLineFair == InitLine /\ [][NextLineOnly]_vars /\ WF_vars(CallLineStep)

-----------------------------------------------------------------------------
(* The rotation methods called directly: update_rotation any number of      *)
(* times, each fast_rotate_point or fast_project_to_2d call followed by an  *)
(* update_rotation call.                                                    *)

AfterUpdate == call.op \in {"none", "update_rotation"}

\* matrix sizes: the default 64 x 64 and a 64 x 32 panel
RotDims == {<<DefaultWidth, DefaultHeight>>, <<DefaultWidth, DefaultHeight \div 2>>}

\* the cube's vertices and points whose products are not multiples of 1000
RotPoints ==
  {vertices[i] : i \in 1 .. Len(vertices)}
    \cup {<<0, -3, 0>>, <<-3, 0, 0>>, <<1500, -500, 250>>, <<-1, 2, -7>>}

ProjPoints ==
  {<<x, y, z>> : x \in {-1732, -7, 999, 1732},
                 y \in {-1700, -3, 1234}, z \in {-1000, 5}}

drawing == << bitmap, current_pixels, ln, written, path >>

\* update_rotation(): lines 239-243
CallUpdateRotation ==
  /\ pc = "idle"
  /\ update_rotation
  /\ call' = [op |-> "update_rotation"]
  /\ ret' = << >>
  /\ UNCHANGED << polling, geom, animation, drawing, pc >>

\* fast_rotate_point(point): lines 135-162
CallRotate ==
  /\ pc = "idle"
  /\ AfterUpdate
  /\ \E p \in RotPoints :
       /\ call' = [op |-> "fast_rotate_point", point |-> p]
       /\ ret' = fast_rotate_point(p, angle_x, angle_y, angle_z)
  /\ UNCHANGED << polling, geom, angles, animation, drawing, pc >>

\* fast_project_to_2d(point): lines 164-172
CallProject ==
  /\ pc = "idle"
  /\ AfterUpdate
  /\ \E p \in ProjPoints :
       /\ call' = [op |-> "fast_project_to_2d", point |-> p]
       /\ ret' = fast_project_to_2d(p, scale, center_x, center_y)
  /\ UNCHANGED << polling, geom, angles, animation, drawing, pc >>

InitRot == \E d \in RotDims : Construct(d[1], d[2])

NextRot == CallUpdateRotation \/ CallRotate \/ CallProject

SpecRot == InitRot /\ [][NextRot]_vars


-----------------------------------------------------------------------------
(* fast_rotate_point called on an object whose angle attributes were        *)
(* assigned by the caller after construction: one axis at any angle of      *)
(* [0, 360), or whole turns on all three axes; then an axis turned by 360   *)
(* more.                                                                    *)

\* whole turns assigned per axis: 0 .. MaxTurns
MaxTurns == 2

\* the angle of the two axes that are not swept
OtherAngles == {0, 37}

AxisAngles(axis, a, b) ==
  << IF axis = "x" THEN a ELSE b,
     IF axis = "y" THEN a ELSE b,
     IF axis = "z" THEN a ELSE b >>

\* cube.angle_x, cube.angle_y, cube.angle_z = ...: attributes of lines 86-88
AssignAngle ==
  /\ pc = "idle"
  /\ call.op = "none"
  /\ \E axis \in {"x", "y", "z"}, a \in 0 .. 359, b \in OtherAngles :
       /\ angle_x' = AxisAngles(axis, a, b)[1]
       /\ angle_y' = AxisAngles(axis, a, b)[2]
       /\ angle_z' = AxisAngles(axis, a, b)[3]
  /\ call' = [op |-> "assign"]
  /\ ret' = << >>
  /\ UNCHANGED << polling, geom, animation, drawing, pc >>

AssignWholeTurns ==
  /\ pc = "idle"
  /\ call.op = "none"
  /\ \E i \in 0 .. MaxTurns, j \in 0 .. MaxTurns, k \in 0 .. MaxTurns :
       /\ angle_x' = 360 * i
       /\ angle_y' = 360 * j
       /\ angle_z' = 360 * k
  /\ call' = [op |-> "assign_turns"]
  /\ ret' = << >>
  /\ UNCHANGED << polling, geom, animation, drawing, pc >>

\* fast_rotate_point(vertex), the axis turned by 360, fast_rotate_point(vertex)
\* again: lines 135-162 twice, the first result kept in the call record
CallRotateTurned ==
  /\ pc = "idle"
  /\ call.op = "assign"
  /\ \E i \in 1 .. Len(vertices), axis \in {"x", "y", "z"} :
       /\ angle_x' = angle_x + AxisAngles(axis, 360, 0)[1]
       /\ angle_y' = angle_y + AxisAngles(axis, 360, 0)[2]
       /\ angle_z' = angle_z + AxisAngles(axis, 360, 0)[3]
       /\ call' = [op |-> "full_turn", point |-> vertices[i], axis |-> axis,
                   before |-> fast_rotate_point(vertices[i],
                                                angle_x, angle_y, angle_z)]
       /\ ret' = fast_rotate_point(vertices[i], angle_x', angle_y', angle_z')
  /\ UNCHANGED << polling, geom, animation, drawing, pc >>

\* fast_rotate_point(vertex) with whole turns on all axes: lines 135-162
CallRotateWhole ==
  /\ pc = "idle"
  /\ call.op = "assign_turns"
  /\ \E i \in 1 .. Len(vertices) :
       /\ call' = [op |-> "whole_turns", point |-> vertices[i]]
       /\ ret' = fast_rotate_point(vertices[i], angle_x, angle_y, angle_z)
  /\ UNCHANGED << polling, geom, angles, animation, drawing, pc >>

InitTurn == Construct(DefaultWidth, DefaultHeight)

NextTurn ==
  AssignAngle \/ AssignWholeTurns \/ CallRotateTurned \/ CallRotateWhole

SpecTurn == InitTurn /\ [][NextTurn]_vars


-----------------------------------------------------------------------------
(* The cycle without its clock: fast_draw_cube() and update_rotation()      *)
(* called in turn on a SmallWidth x SmallHeight matrix, for a whole turn    *)
(* of the slowest axis; frame_count counts the completed cycles.            *)

\* cycles of the orbit: one whole turn of angle_z
MaxCycles == 360

\* cube.fast_draw_cube() is called for the first frame: line 272
OrbitFirst ==
  /\ pc = "idle"
  /\ pc' = "draw"
  /\ written' = {}
  /\ UNCHANGED << polling, geom, angles, ghosts, animation, bitmap, current_pixels,
                  ln, path >>

\* lines 272-277 again: the cycle is counted, fast_draw_cube() is called
OrbitAgain ==
  /\ pc = "count"
  /\ frame_count < MaxCycles
  /\ frame_count' = frame_count + 1
  /\ pc' = "draw"
  /\ written' = {}
  /\ UNCHANGED << polling, geom, angles, ghosts, bitmap, previous_pixels,
                  current_pixels, transformed_vertices, duration, start_time,
                  last_fps_time, frame_start, sleep_for, now, vi, ei, ln,
                  path, cleared, runs, stopped_at >>

InitOrbit == Construct(SmallWidth, SmallHeight)

NextOrbit ==
  \/ OrbitFirst
  \/ DrawCubeBegin
  \/ Transform
  \/ EdgeBegin
  \/ LineStep
  \/ Differ
  \/ Retain
  \/ UpdateRotation
  \/ OrbitAgain

SpecOrbit == InitOrbit /\ [][NextOrbit]_vars


-----------------------------------------------------------------------------
(* code.py: the polling loop of the score display, lines 123-171.  A        *)
(* network request returns after one of RequestSeconds on the clock, or     *)
(* raises RuntimeError or another exception at once.                        *)

\* the clock value up to which requests and sleeps are followed
MaxMonotonic == 3920

\* seconds since power-up at which the loop is entered
BootSeconds == {1, 4}

RequestSeconds == {0, 2}

Outcomes == {"ok", "RuntimeError", "Exception"}

cube == << geom, angles, ghosts, animation, drawing >>

\* `not v` for a refresh time: None and 0.0 are both falsy
Falsy(v) == v = None \/ v = 0

\* line 125
TimeDue == Falsy(localtime_refresh)
             \/ monotonic - localtime_refresh > TimeSyncInterval

\* line 135
GameDue == Falsy(game_refresh) \/ monotonic - game_refresh > UPDATE_INTERVAL

\* lines 60-67 have run, the while loop is entered
PollEnter ==
  /\ pc = "idle"
  /\ monotonic = 0
  /\ \E b \in BootSeconds : monotonic' = b
  /\ pc' = "poll_top"
  /\ UNCHANGED << cube, localtime_refresh, game_refresh, last_request, slept >>

\* line 125: the time refresh test
TimeCheck ==
  /\ pc = "poll_top"
  /\ monotonic < MaxMonotonic
  /\ pc' = IF TimeDue THEN "get_time" ELSE "game_check"
  /\ UNCHANGED << cube, polling >>

\* the except clause falls through to the rest of the iteration
AfterContinueFallsThrough == "game_check"

\* where `continue` leads: the top of the loop, time.sleep(1) is skipped
AfterContinue == "poll_top"

\* lines 126-132: network.get_local_time() and its except clause; an
\* exception other than RuntimeError is not caught and ends the program
GetLocalTime ==
  /\ pc = "get_time"
  /\ \E o \in Outcomes, d \in RequestSeconds :
       /\ monotonic' = IF o = "ok" THEN monotonic + d ELSE monotonic
       /\ last_request' = [op |-> "get_local_time", outcome |-> o]
       /\ localtime_refresh' = IF o = "ok" THEN monotonic'
                                          ELSE localtime_refresh
       /\ pc' = IF o = "ok" THEN "game_check"
                ELSE IF o = "RuntimeError" THEN AfterContinue
                ELSE "crashed"
  /\ slept' = FALSE
  /\ UNCHANGED << cube, game_refresh >>

\* line 135: the game data refresh test
GameCheck ==
  /\ pc = "game_check"
  /\ pc' = IF GameDue THEN "fetch" ELSE "poll_sleep"
  /\ UNCHANGED << cube, polling >>

\* lines 136-168: network.fetch_data(...), the display update, and the two
\* except clauses, which both end in continue
FetchData ==
  /\ pc = "fetch"
  /\ \E o \in Outcomes, d \in RequestSeconds :
       /\ monotonic' = IF o = "ok" THEN monotonic + d ELSE monotonic
       /\ last_request' = [op |-> "fetch_data", outcome |-> o]
       /\ game_refresh' = IF o = "ok" THEN monotonic' ELSE game_refresh
       /\ pc' = IF o = "ok" THEN "poll_sleep" ELSE AfterContinue
  /\ slept' = FALSE
  /\ UNCHANGED << cube, localtime_refresh >>

\* the delay returns at once
PollSleepNoWait ==
  /\ pc = "poll_sleep"
  /\ monotonic' = monotonic
  /\ slept' = TRUE
  /\ pc' = "poll_top"
  /\ UNCHANGED << cube, localtime_refresh, game_refresh, last_request >>

\* lines 170-171
PollSleep ==
  /\ pc = "poll_sleep"
  /\ monotonic' = monotonic + SleepSeconds
  /\ slept' = TRUE
  /\ pc' = "poll_top"
  /\ UNCHANGED << cube, localtime_refresh, game_refresh, last_request >>

InitPoll == Construct(DefaultWidth, DefaultHeight \div 2)

NextPoll ==
  PollEnter \/ TimeCheck \/ GetLocalTime \/ GameCheck \/ FetchData \/ PollSleep

SpecPoll == InitPoll /\ [][NextPoll]_vars


-----------------------------------------------------------------------------
(* Properties *)

InMatrix(p) ==
  p[1] \in 0 .. MATRIX_WIDTH - 1 /\ p[2] \in 0 .. MATRIX_HEIGHT - 1

Max(a, b) == IF a > b THEN a ELSE b

AllBackground ==
  \A q \in Cells(MATRIX_WIDTH, MATRIX_HEIGHT) : Pixel(bitmap, q[1], q[2]) = 0

LineStart == <<ln.x1, ln.y1>>

LineEnd == <<ln.x2, ln.y2>>

StoresInBounds ==
  /\ DOMAIN bitmap \subseteq Cells(MATRIX_WIDTH, MATRIX_HEIGHT)
  /\ \A p \in written : InMatrix(p)

OutOfBoundsIsNoOp ==
  /\ (pc = "call_line" /\ ~InMatrix(<<ln.x, ln.y>>))
       => (bitmap' = bitmap /\ current_pixels' = current_pixels)
  /\ (pc = "line_done" /\ call'.op = "set_pixel"
        /\ ~InMatrix(<<call'.x, call'.y>>))
       => (bitmap' = bitmap /\ current_pixels' = current_pixels)
  /\ (pc = "line_done" /\ call'.op = "fast_clear")
       => /\ current_pixels' = current_pixels
          /\ \A q \in Cells(MATRIX_WIDTH, MATRIX_HEIGHT) \ call'.pixels :
               Pixel(bitmap', q[1], q[2]) = Pixel(bitmap, q[1], q[2])

\* C1: every index stored to by set_pixel, fast_clear and each step of
\* fast_draw_line lies inside [0, width) x [0, height), the framebuffer never
\* gains a cell outside it, and a step at an out-of-bounds (x, y) leaves the
\* whole framebuffer and the frame pixel set unchanged.
C1_BoundedWrites == [](StoresInBounds) /\ [][OutOfBoundsIsNoOp]_vars

\* an out-of-bounds set_pixel after a line that lit pixels and also stepped
\* outside the matrix
C1_Witness ==
  /\ pc = "op_done"
  /\ call.op = "set_pixel"
  /\ ~InMatrix(<<call.x, call.y>>)
  /\ current_pixels # {}
  /\ \E i \in 1 .. Len(path) : ~InMatrix(path[i])

\* C2: whenever run_animation has returned (after a KeyboardInterrupt at any
\* point of a cycle or after the duration limit), every pixel of the
\* framebuffer is background (0).
C2_ClearedOnReturn == pc = "returned" => AllBackground

\* returned after an interrupt in the middle of a line, with an earlier frame
\* fully drawn
C2_Witness ==
  pc = "returned" /\ stopped_at = "line" /\ previous_pixels # {}

\* C3: the Frame Differ step leaves every pixel of prev - curr at background
\* and every pixel of curr with the value it had before the step.
C3_DifferStep ==
  [][(pc = "differ" /\ pc' = "retain")
       => /\ \A p \in previous_pixels \ current_pixels :
               Pixel(bitmap', p[1], p[2]) = 0
          /\ \A p \in current_pixels :
               /\ Pixel(bitmap', p[1], p[2]) = Pixel(bitmap, p[1], p[2])
               /\ Pixel(bitmap', p[1], p[2]) # 0]_vars

\* a Frame Differ step that cleared pixels while other pixels of the previous
\* frame are part of the current one
C3_Witness ==
  /\ pc = "retain"
  /\ cleared # {}
  /\ previous_pixels \cap current_pixels # {}

\* C4: each of the three rotation angles is an integer in [0, 360) in every
\* reachable state, after any number of update_rotation calls.
C4_AnglesWrapped ==
  angle_x \in 0 .. 359 /\ angle_y \in 0 .. 359 /\ angle_z \in 0 .. 359

\* 120 cycles: angle_x has wrapped once
C4_Witness ==
  call.op = "update_rotation" /\ angle_x = 0 /\ angle_y = 240 /\ angle_z = 120

Chebyshev(p, q) == Max(Abs(p[1] - q[1]), Abs(p[2] - q[2]))

\* C5: a completed fast_draw_line between two in-bounds points has visited an
\* 8-connected path from p1 to p2 inclusive, no pixel twice, with
\* max(|dx|,|dy|)+1 <= n <= |dx|+|dy|+1 visited pixels, each written with
\* color_index and present in the frame set.
C5_LinePath ==
  (pc = "line_done" /\ InMatrix(LineStart) /\ InMatrix(LineEnd))
    => /\ Len(path) >= 1
       /\ path[1] = LineStart
       /\ path[Len(path)] = LineEnd
       /\ \A i \in 1 .. Len(path) - 1 : Chebyshev(path[i], path[i + 1]) = 1
       /\ \A i, j \in 1 .. Len(path) : i # j => path[i] # path[j]
       /\ Len(path) >= Max(ln.dx, ln.dy) + 1
       /\ Len(path) <= ln.dx + ln.dy + 1
       /\ \A i \in 1 .. Len(path) :
            /\ Pixel(bitmap, path[i][1], path[i][2]) = call.color
            /\ path[i] \in current_pixels

\* a completed sloped line (neither axis-parallel nor diagonal) inside the
\* matrix
C5_Witness ==
  /\ pc = "line_done"
  /\ InMatrix(LineStart)
  /\ InMatrix(LineEnd)
  /\ ln.dx >= 2
  /\ ln.dy >= 1
  /\ ln.dx # ln.dy

BothOutside == ~InMatrix(LineStart) /\ ~InMatrix(LineEnd)

SameSideOutside ==
  \/ ln.x1 < 0 /\ ln.x2 < 0
  \/ ln.x1 >= MATRIX_WIDTH /\ ln.x2 >= MATRIX_WIDTH
  \/ ln.y1 < 0 /\ ln.y2 < 0
  \/ ln.y1 >= MATRIX_HEIGHT /\ ln.y2 >= MATRIX_HEIGHT

DrewNothingAndCompleted ==
  /\ current_pixels = {}
  /\ AllBackground
  /\ <<ln.x, ln.y>> = LineEnd
  /\ path[Len(path)] = LineEnd

\* C6 as stated: a completed fast_draw_line with both endpoints outside the
\* matrix has written no pixel and added nothing to the frame set.
C6_Original ==
  (pc = "line_done" /\ BothOutside) => DrewNothingAndCompleted

\* C6 amended: a completed fast_draw_line whose endpoints lie outside the
\* matrix beyond the same edge has written no pixel, added nothing to the
\* frame set, and has reached its endpoint.
C6_OutsideSameSide ==
  (pc = "line_done" /\ SameSideOutside) => DrewNothingAndCompleted

\* a completed line of several steps, both endpoints beyond the same edge
C6_Witness ==
  pc = "line_done" /\ SameSideOutside /\ Len(path) >= 3

Rot2D(a, b, ang) ==
  << (a * Cos(ang) - b * Sin(ang)) \div 1000,
     (a * Sin(ang) + b * Cos(ang)) \div 1000 >>

\* X on (y, z), then Y on (x, z), then Z on (x, y)
ClaimedRotation(p, ax, ay, az) ==
  LET r1 == Rot2D(p[2], p[3], ax)
      p1 == <<p[1], r1[1], r1[2]>>
      r2 == Rot2D(p1[1], p1[3], ay)
      p2 == <<r2[1], p1[2], r2[2]>>
      r3 == Rot2D(p2[1], p2[2], az)
  IN  <<r3[1], r3[2], p2[3]>>

\* X on (y, z), then Y on (z, x), then Z on (x, y)
AmendedRotation(p, ax, ay, az) ==
  LET r1 == Rot2D(p[2], p[3], ax)
      p1 == <<p[1], r1[1], r1[2]>>
      r2 == Rot2D(p1[3], p1[1], ay)
      p2 == <<r2[2], p1[2], r2[1]>>
      r3 == Rot2D(p2[1], p2[2], az)
  IN  <<r3[1], r3[2], p2[3]>>

\* C7 as stated: fast_rotate_point returns the X, then Y, then Z rotation,
\* each newA = (a*cos - b*sin)/1000, newB = (a*sin + b*cos)/1000 on the pairs
\* (y, z), (x, z), (x, y).
C7_Original ==
  call.op = "fast_rotate_point"
    => ret = ClaimedRotation(call.point, angle_x, angle_y, angle_z)

\* C7 amended: as stated, except that the Y-axis rotation acts on the ordered
\* pair (z, x): newZ = (z*cos - x*sin)/1000, newX = (z*sin + x*cos)/1000.
C7_RotationOrder ==
  call.op = "fast_rotate_point"
    => ret = AmendedRotation(call.point, angle_x, angle_y, angle_z)

\* a cube vertex rotated with three angles that are not multiples of 90
C7_Witness ==
  /\ call.op = "fast_rotate_point"
  /\ call.point = vertices[2]
  /\ angle_x % 90 # 0
  /\ angle_y % 90 # 0
  /\ angle_z % 90 # 0

TruncQuot(n) == IF n >= 0 THEN n \div 1000 ELSE -((-n) \div 1000)

\* the quotient rounded toward negative infinity
FloorQuot(n) ==
  IF n < 0 /\ (-n) % 1000 # 0 THEN TruncQuot(n) - 1 ELSE TruncQuot(n)

RotationWith(D(_), p, ax, ay, az) ==
  LET y1 == D(p[2] * Cos(ax) - p[3] * Sin(ax))
      z1 == D(p[2] * Sin(ax) + p[3] * Cos(ax))
      x2 == D(p[1] * Cos(ay) + z1 * Sin(ay))
      z2 == D((-p[1]) * Sin(ay) + z1 * Cos(ay))
      x3 == D(x2 * Cos(az) - y1 * Sin(az))
      y3 == D(x2 * Sin(az) + y1 * Cos(az))
  IN  <<x3, y3, z2>>

ProjectionWith(D(_), p) ==
  << D(D(p[1] * scale) + center_x), D(D(p[2] * scale) + center_y) >>

DivisionsAre(D(_)) ==
  /\ call.op = "fast_rotate_point"
       => ret = RotationWith(D, call.point, angle_x, angle_y, angle_z)
  /\ call.op = "fast_project_to_2d" => ret = ProjectionWith(D, call.point)

\* C8 as stated: every division by 1000 in the rotation and the projection
\* truncates toward zero (-1500/1000 gives -1).
C8_Original == DivisionsAre(TruncQuot)

\* C8 amended: every division by 1000 in the rotation and the projection
\* rounds toward negative infinity (-1500/1000 gives -2).
C8_FloorDivision == DivisionsAre(FloorQuot)

\* the point (-3, 0, 0) rotated with angle_y = 210: the numerator
\* -x*sin_y + z*cos_y of the Y-axis rotation is -1500 and the returned z is -2
C8_Witness ==
  /\ call.op = "fast_rotate_point"
  /\ call.point = <<-3, 0, 0>>
  /\ angle_y = 210
  /\ (-call.point[1]) * Sin(angle_y) = -1500
  /\ ret[3] = -2

ClaimedProjection(p) ==
  LET s  == Min(MATRIX_WIDTH, MATRIX_HEIGHT) * 300
      cx == (MATRIX_WIDTH * 1000) \div 2
      cy == (MATRIX_HEIGHT * 1000) \div 2
  IN  << ((p[1] * s) \div 1000 + cx) \div 1000,
         ((p[2] * s) \div 1000 + cy) \div 1000 >>

ProjectStep == call'.op = "fast_project_to_2d" /\ call' # call

\* C9: fast_project_to_2d returns ((x*scale/1000 + centerX)/1000,
\* (y*scale/1000 + centerY)/1000) with scale = min(width, height)*300 and
\* centerX/Y = dimension*1000/2, whatever z and the angles are, and the call
\* changes no state of the object.
C9_Projection ==
  /\ [](call.op = "fast_project_to_2d" => ret = ClaimedProjection(call.point))
  /\ [][ProjectStep => UNCHANGED << polling, geom, angles, animation, drawing >>]_vars

\* a projection on the 64 x 32 matrix of a point with negative x and
\* non-zero z, at non-zero angles
C9_Witness ==
  /\ call.op = "fast_project_to_2d"
  /\ MATRIX_WIDTH # MATRIX_HEIGHT
  /\ call.point[1] < 0
  /\ call.point[3] # 0
  /\ angle_x # 0

\* pixels on a corner-to-corner line of the matrix
DiagonalSpan == Max(MATRIX_WIDTH, MATRIX_HEIGHT)

\* C10: on the 64 x 64 matrix the frame set retained after a cycle has at most
\* 12 x (diagonal pixel span) elements, and the set cleared by the second
\* and later cycles of a run is non-empty and smaller than the matrix area.
C10_EndToEnd ==
  /\ (MATRIX_WIDTH = 64 /\ MATRIX_HEIGHT = 64)
  /\ pc = "rotate"
       => Cardinality(previous_pixels) <= Len(edges) * DiagonalSpan
  /\ (pc = "retain" /\ frame_count >= 1)
       => /\ cleared # {}
          /\ Cardinality(cleared) < MATRIX_WIDTH * MATRIX_HEIGHT

\* the second cycle of the first run has just cleared its stale pixels
C10_Witness ==
  /\ pc = "retain"
  /\ runs = 1
  /\ frame_count = 1
  /\ cleared # {}
  /\ Cardinality(current_pixels) > Cardinality(cleared)

\* C11: a full turn changes nothing: fast_rotate_point of a vertex with 360
\* added to the angle of one axis returns the same point as before the turn,
\* and with whole turns on all three axes it returns the vertex itself,
\* within one unit per axis.
TurnedAngle ==
  IF call.axis = "x" THEN angle_x ELSE IF call.axis = "y" THEN angle_y ELSE angle_z

C11_FullTurn ==
  /\ call.op = "full_turn" =>
       /\ TurnedAngle \in 360 .. 719
       /\ ret = call.before
  /\ call.op = "whole_turns" =>
       /\ angle_x % 360 = 0 /\ angle_y % 360 = 0 /\ angle_z % 360 = 0
       /\ \A i \in 1 .. 3 : Abs(ret[i] - call.point[i]) <= 1

\* the top front right vertex turned about x from 30 to 390 degrees
C11_Witness ==
  /\ call.op = "full_turn"
  /\ call.axis = "x"
  /\ << angle_x, angle_y, angle_z >> = << 390, 0, 0 >>
  /\ call.point = << 1000, 1000, 1000 >>
  /\ ret # call.point
  /\ ret = call.before

\* C12: no state survives a restart: a run of run_animation started after an
\* earlier run stopped begins, before its first cycle, with an empty
\* previous-frame pixel set and all three angles at zero.
C12_FreshRestart ==
  (pc = "loop" /\ runs >= 2 /\ frame_count = 0) =>
    /\ previous_pixels = {}
    /\ << angle_x, angle_y, angle_z >> = << 0, 0, 0 >>

\* C13: when the render pass of a cycle is complete every pixel of the
\* current frame set lies inside the matrix and holds one of the edge
\* colours 1, 2, 3 in the framebuffer, never background; and no pixel the
\* Frame Differ cleared in the cycle is a member of the current frame set.
EdgeColours == {1, 2, 3}

SomeVertexOutside == \E i \in 1 .. Len(vertices) : ~InMatrix(transformed_vertices[i])

C13_RenderPass ==
  /\ pc \in {"differ", "retain"} =>
       \A p \in current_pixels :
         InMatrix(p) /\ Pixel(bitmap, p[1], p[2]) \in EdgeColours
  /\ pc = "retain" => cleared \cap current_pixels = {}

\* a frame with a vertex projected outside the matrix, drawn in all three
\* colours, whose Differ pass cleared pixels of the frame before
C13_Witness ==
  /\ pc = "retain"
  /\ SomeVertexOutside
  /\ cleared # {}
  /\ \A c \in EdgeColours :
       \E p \in current_pixels : Pixel(bitmap, p[1], p[2]) = c

\* C14: the vertex list and the edge list never change after construction
\* (fast_rotate_point does not write to the point it is given); the angles
\* change only in the update_rotation step, once per cycle, and every other
\* step of the cycle (rotation, projection, line drawing, the Differ, the
\* retaining of the frame set) leaves them alone; the update_rotation step
\* leaves the framebuffer and the previous-frame set unchanged.
IsUpdateRotationStep == pc = "rotate" /\ pc' = "count"

UpdatesSoFar == frame_count + (IF pc = "count" THEN 1 ELSE 0)

ListsAsConstructed == self_vertices = vertices /\ self_edges = edges

\* in the first run angle_z, which advances by 1, counts the updates
OneUpdatePerCycle == (runs = 1 /\ pc \in TryPcs) => angle_z = UpdatesSoFar

C14_Frames ==
  /\ []ListsAsConstructed
  /\ [][angles' # angles => IsUpdateRotationStep]_vars
  /\ [][IsUpdateRotationStep =>
          /\ angles' # angles
          /\ UNCHANGED << bitmap, previous_pixels >>]_vars
  /\ []OneUpdatePerCycle

\* update_rotation has just run for the first time, after a frame was drawn
\* from the eight vertices
C14_Witness ==
  /\ pc = "count"
  /\ frame_count = 0
  /\ angles = << 3, 2, 1 >>
  /\ previous_pixels # {}
  /\ DOMAIN bitmap = previous_pixels
  /\ vi = Len(self_vertices)

\* C15: with a duration limit d >= 0 supplied, the limit is checked at the
\* top of each cycle before drawing, and once the elapsed time has reached d
\* the loop stops without drawing another frame: whenever a frame is about
\* to be drawn, the elapsed time is still below the limit.
C15_StopsAtLimit ==
  (pc = "draw" /\ duration # NoDuration) => now - start_time < duration

\* C16: inside a running cycle the phases follow one another in this order,
\* each complete before the next begins: the 8 vertices are rotated and
\* projected, the 12 edges are rasterised into a frame set that starts
\* empty, the stale pixels previous - current are cleared, the previous-frame
\* set is replaced by the new set, the angles are advanced, the pacing sleep
\* is taken.  A frame is drawn with the angles as they are before the
\* cycle's advance: the first frame after construction at (0, 0, 0).
CycleSteps ==
  { <<"loop", "draw">>, <<"draw", "transform">>, <<"transform", "edges">>,
    <<"edges", "line">>, <<"line", "edges">>, <<"line", "differ">>,
    <<"differ", "retain">>, <<"retain", "rotate">>, <<"rotate", "count">>,
    <<"count", "pace">>, <<"pace", "sleep">>, <<"pace", "loop">>,
    <<"sleep", "loop">> }

RenderPcs == {"edges", "line", "differ", "retain", "rotate"}

\* what each phase finds done when it begins
PhasesComplete ==
  /\ pc \in RenderPcs =>
       /\ vi = Len(self_vertices)
       /\ transformed_vertices = TransformAll
  /\ (pc = "edges" /\ ei = 1) => current_pixels = {}
  /\ pc \in {"differ", "retain", "rotate"} =>
       /\ ei = Len(self_edges)
       /\ LineAtEnd(ln)
       /\ LineEnd = transformed_vertices[self_edges[ei][2] + 1]
  /\ pc = "retain" => cleared = previous_pixels \ current_pixels
  /\ pc \in {"rotate", "count", "pace", "sleep"} =>
       previous_pixels = current_pixels
  /\ pc = "sleep" => sleep_for > 0

FirstFrameAtZero ==
  (runs = 1 /\ frame_count = 0 /\ pc \in {"draw", "transform"} \cup RenderPcs)
    => angles = << 0, 0, 0 >>

C16_PhaseOrder ==
  /\ [][(pc \in TryPcs /\ pc' \in TryPcs /\ pc' # pc)
          => << pc, pc' >> \in CycleSteps]_vars
  /\ [][(pc = "line" /\ pc' = "differ") => ei = Len(self_edges)]_vars
  /\ []PhasesComplete
  /\ []FirstFrameAtZero

\* the second cycle is in its pacing sleep: its frame was drawn at (3, 2, 1)
\* and the angles were advanced after it
C16_Witness ==
  /\ pc = "sleep"
  /\ runs = 1
  /\ frame_count = 2
  /\ angles = << 6, 4, 2 >>
  /\ previous_pixels = current_pixels
  /\ cleared # {}

\* C17: each cycle advances angle_x by the speed 3, angle_y by
\* trunc(0.7 * 3) = 2 and angle_z by trunc(0.5 * 3) = 1, each modulo 360:
\* after k cycles from construction the angles are
\* (3k mod 360, 2k mod 360, k mod 360), and they are (0, 0, 0) again for the
\* first time after exactly 360 cycles.
C17_Orbit ==
  /\ angles = << (3 * UpdatesSoFar) % 360, (2 * UpdatesSoFar) % 360,
                 UpdatesSoFar % 360 >>
  /\ UpdatesSoFar \in 1 .. 359 => angles # << 0, 0, 0 >>
  /\ UpdatesSoFar = 360 => angles = << 0, 0, 0 >>

\* the 361st frame is about to be drawn, at the angles of the first
C17_Witness ==
  /\ pc = "draw"
  /\ frame_count = 360
  /\ angles = << 0, 0, 0 >>
  /\ previous_pixels # {}

\* C18: a pixel in both the previous frame's set and the current frame's set
\* is never background at an intermediate point of the cycle: when the line
\* loop is about to store to a pixel of the previous frame's set that pixel
\* is still lit, and after the Differ every pixel of both sets is lit.
AboutToStore ==
  /\ pc = "line"
  /\ InMatrix(<< ln.x, ln.y >>)

C18_NoFlicker ==
  /\ (AboutToStore /\ << ln.x, ln.y >> \in previous_pixels)
       => Pixel(bitmap, ln.x, ln.y) # 0
  /\ pc = "retain" =>
       \A p \in previous_pixels \cap current_pixels :
         Pixel(bitmap, p[1], p[2]) # 0

\* C19: fast_draw_line terminates for every pair of integer endpoints, a
\* single point, horizontal, vertical, diagonal and out-of-bounds lines
\* included: every call reaches its return with the current point exactly at
\* (x2, y2), every iteration brings the current point one step nearer to
\* (x2, y2), and the current point never leaves the span of the endpoints.
Between(v, a, b) == (a <= v /\ v <= b) \/ (b <= v /\ v <= a)

WithinSpan ==
  pc \in {"call_line", "line_done"} =>
    /\ Between(ln.x, ln.x1, ln.x2)
    /\ Between(ln.y, ln.y1, ln.y2)

C19_LineTerminates ==
  /\ (pc = "call_line") ~> (pc = "line_done" /\ << ln.x, ln.y >> = LineEnd)
  /\ []WithinSpan
  /\ [][(pc = "call_line" /\ pc' = "call_line") =>
          Chebyshev(<< ln.x', ln.y' >>, LineEnd)
            = Chebyshev(<< ln.x, ln.y >>, LineEnd) - 1]_vars

\* the longest line tried, from beyond one corner of the matrix to beyond
\* the opposite corner, has returned
C19_Witness ==
  /\ pc = "line_done"
  /\ LineStart = << -OobMargin, MATRIX_HEIGHT - 1 + OobMargin >>
  /\ LineEnd = << MATRIX_WIDTH - 1 + OobMargin, -OobMargin >>
  /\ << ln.x, ln.y >> = LineEnd
  /\ Len(path) = Max(ln.dx, ln.dy) + 1

\* C20: frame pacing: at the end of a cycle whose processing time t is below
\* the 16 ms budget the loop sleeps for exactly 16 - t, a strictly positive
\* time; with t >= 16 it does not sleep and the next cycle starts at once;
\* in both cases the next frame is the next one in sequence, none skipped.
FrameTime == now - frame_start

PaceDecision ==
  (pc = "pace" /\ pc' \in TryPcs) =>
    /\ now' = now
    /\ IF FrameTime < 16
         THEN pc' = "sleep" /\ sleep_for' = 16 - FrameTime /\ sleep_for' > 0
         ELSE pc' = "loop" /\ sleep_for' = 0

SleepTaken ==
  (pc = "sleep" /\ pc' = "loop") =>
    /\ now' = now + sleep_for
    /\ now' - frame_start = 16

C20_Pacing ==
  /\ [][PaceDecision]_vars
  /\ [][SleepTaken]_vars
  /\ [][(pc \in {"pace", "sleep"} /\ pc' = "loop")
          => UNCHANGED << angles, frame_count >>]_vars
  /\ []((runs = 1 /\ pc \in {"pace", "sleep", "loop", "draw"})
          => angle_z = frame_count)

\* the first cycle took 5 ms and is asleep for the remaining 11 ms
C20_Witness ==
  /\ pc = "sleep"
  /\ frame_count = 1
  /\ FrameTime = 5
  /\ sleep_for = 11

\* C21: at every cycle boundary, when fast_draw_cube has returned, the set of
\* non-background framebuffer pixels equals previous_pixels exactly: no lit
\* pixel of an earlier frame remains and no pixel of the latest frame is
\* dark, after any number of cycles.
LitPixels == DOMAIN bitmap

C21_BitmapIsFrame ==
  pc \in {"rotate", "count"} => LitPixels = previous_pixels

\* fast_draw_cube has returned from a later frame that cleared stale pixels
\* and has a vertex projected outside the matrix
C21_Witness ==
  /\ pc = "rotate"
  /\ frame_count >= 1
  /\ cleared # {}
  /\ SomeVertexOutside
  /\ previous_pixels # {}
  /\ LitPixels = previous_pixels

\* C22: in the polling loop game data is never fetched before the network
\* time was obtained: whenever network.fetch_data is about to be called,
\* localtime_refresh has been set, by a successful get_local_time only, and
\* is at most 3600 s old; the fetch is reached only through the game data
\* test, and that test only after the time test found the sync fresh or
\* after a successful sync; an iteration whose sync fails goes back to the
\* top of the loop or ends the program.
SyncFresh ==
  pc = "fetch" =>
    /\ localtime_refresh # None
    /\ localtime_refresh > 0
    /\ monotonic - localtime_refresh \in 0 .. 3600

SyncSucceeds ==
  /\ pc = "get_time"
  /\ last_request' = [op |-> "get_local_time", outcome |-> "ok"]
  /\ localtime_refresh' = monotonic'

C22_FetchAfterSync ==
  /\ []SyncFresh
  /\ [][localtime_refresh' # localtime_refresh => SyncSucceeds]_vars
  /\ [][(pc' = "fetch" /\ pc # "fetch") => pc = "game_check"]_vars
  /\ [][(pc' = "game_check" /\ pc # "game_check") =>
          \/ SyncSucceeds
          \/ /\ pc = "poll_top"
             /\ localtime_refresh # None
             /\ monotonic - localtime_refresh <= 3600]_vars
  /\ [][(pc = "get_time" /\ ~SyncSucceeds) => pc' \in {"poll_top", "crashed"}]_vars

\* a fetch is about to be made on a time sync that is 50 minutes old, after
\* earlier game data
C22_Witness ==
  /\ pc = "fetch"
  /\ monotonic - localtime_refresh >= 3000
  /\ game_refresh # None
  /\ last_request = [op |-> "fetch_data", outcome |-> "ok"]

\* C23 as stated: every iteration of the polling loop ends with the
\* 1-second delay, so that whenever a network request (get_local_time or
\* fetch_data) is about to be made after an earlier one, time.sleep(1) has
\* run in between, also when the earlier request failed.
AboutToRequest == pc \in {"get_time", "fetch"} /\ last_request # NoRequest

SyncThenFetch ==
  /\ pc = "fetch"
  /\ last_request = [op |-> "get_local_time", outcome |-> "ok"]

====
